---- MODULE Spec2Model ----
(***************************************************************************)
(* Lifecycle of DiscordBot (src/src/discord.rs): the supervisor values     *)
(* (the one built by new() and its clones), the shard run tasks spawned by *)
(* start_shards, the shared cancellation token, the client RwLock, the     *)
(* audio player Mutex and the two-phase shutdown sequence.                 *)
(* Every action is one step between two suspension points (.await) of the  *)
(* code, so that every interleaving of the tokio tasks is a behaviour.     *)
(***************************************************************************)
EXTENDS Naturals, FiniteSets, Sequences, TLC

\* Number of DiscordBot values (the original and its clones).
MaxSup == 2
\* Number of shard run tasks that start_shards may spawn.
MaxTasks == 2

\* Number of calls of post_message, post_debug_string and print_shard_info.
MaxCalls == 2
\* Number of inbound messages given to the event handler.
MaxMsgs == 2

Sup == 1..MaxSup
Task == 1..MaxTasks
Token == 1..MaxSup
Call == 1..MaxCalls
Msg == 1..MaxMsgs

\* Texts are sequences of pieces, so that appending is concatenation.
Content == {<<"hello">>, <<"hi", "all">>}
\* Option<String>: the empty sequence is None, <<u>> is Some(u).
None == <<>>
Url == {None, <<"http://x">>}

\* The three destination channels of the value, and the listen channel of
\* the event handler with some other channel.
chat_channel == "chat"
test_channel == "test"
archive_channel == "archive"
listen_channel == "audio"
ChannelId == {listen_channel, "elsewhere"}

NoCall == [op |-> "none", at |-> "none", content |-> <<>>, url |-> None, sends |-> <<>>]
NoMsg == [at |-> "none", channel |-> "none", bot |-> FALSE, parsed |-> FALSE,
          result |-> "none", error_logged |-> FALSE, reacts |-> <<>>]

VARIABLES
    pc,                 \* position of each DiscordBot value in its life
    shard_handle,       \* Option<Mutex<JoinHandle>>: 0 is None, t is Some(task t)
    shard_cancel_token, \* which CancellationToken state the value refers to
    cancelled,          \* state of each CancellationToken
    task,               \* position of each spawned async block
    task_token,         \* cloned_token captured by the async block
    serenity_bot,       \* Arc<RwLock<Client>>: writer and readers
    audio_player,       \* Arc<Mutex<AudioPlayer>>: 0 is free, s is held by s
    handle_mutex,       \* futures_locks::Mutex around each JoinHandle
    player_called,      \* whether player.shutdown() has returned to the value
    player_result,      \* what the latest player.shutdown() returned
    player_shutdowns,   \* number of calls of AudioPlayer::shutdown
    cancel_called,      \* whether the value's stop_shards has called cancel()
    transitions,        \* number of untriggered-to-triggered transitions
    outcome,            \* which select! branch each task took, and for the
                        \* first branch whether its token was triggered yet
    log,                \* messages logged by each value's shutdown
    call,               \* the calls of post_message, post_debug_string and
                        \* print_shard_info: operation, position, inputs, sends
    shard_manager,      \* Arc<Mutex<ShardManager>>: 0 is free, c is held by call c
    runners,            \* ShardManager::runners Mutex: 0 is free, c is held by c
    handler             \* BotEventHandler::message for each inbound message

vars == <<pc, shard_handle, shard_cancel_token, cancelled, task, task_token,
          serenity_bot, audio_player, handle_mutex, player_called, player_result,
          player_shutdowns, cancel_called, transitions, outcome, log,
          call, shard_manager, runners, handler>>

\* The state of the lifecycle, and the state of the calls made on the side.
lifeVars == <<pc, shard_handle, shard_cancel_token, cancelled, task, task_token,
              serenity_bot, audio_player, handle_mutex, player_called,
              player_result, player_shutdowns, cancel_called, transitions,
              outcome, log>>
apiVars == <<call, shard_manager, runners, handler>>

supVars == <<pc, shard_handle, shard_cancel_token>>
taskVars == <<task, task_token, serenity_bot, outcome>>
audioVars == <<audio_player, player_called, player_result, player_shutdowns>>
tokenVars == <<cancelled, cancel_called, transitions>>

PcValues == {"absent", "idle", "audio_lock", "sleep", "handle_lock",
             "returned", "panicked"}
TaskValues == {"unspawned", "lock_wait", "select", "done"}

TypeOK ==
    /\ pc \in [Sup -> PcValues]
    /\ shard_handle \in [Sup -> 0..MaxTasks]
    /\ shard_cancel_token \in [Sup -> 0..MaxSup]
    /\ cancelled \in [Token -> BOOLEAN]
    /\ task \in [Task -> TaskValues]
    /\ task_token \in [Task -> 0..MaxSup]
    /\ serenity_bot \in [writer : 0..MaxTasks, readers : SUBSET Task]
    /\ audio_player \in 0..MaxSup
    /\ handle_mutex \in [Task -> 0..MaxSup]
    /\ player_called \in [Sup -> BOOLEAN]
    /\ player_result \in {"none", "Ok", "Err"}
    /\ player_shutdowns \in 0..MaxSup
    /\ cancel_called \in [Sup -> BOOLEAN]
    /\ transitions \in 0..MaxSup
    /\ outcome \in [Task -> {"none", "natural", "natural_late", "cancelled"}]
    /\ log \in [Sup -> SUBSET {"waited", "no_handle"}]
    /\ \A c \in Call :
         /\ call[c].op \in {"none", "post", "debug", "info"}
         /\ call[c].at \in {"none", "primary", "archive", "debug", "manager",
                            "runners", "report", "done", "panicked"}
         /\ Len(call[c].sends) <= 2
    /\ shard_manager \in 0..MaxCalls
    /\ runners \in 0..MaxCalls
    /\ \A m \in Msg :
         /\ handler[m].at \in {"none", "process", "react", "done", "panicked"}
         /\ Len(handler[m].reacts) <= 1

\* DiscordBot::new: one value, no shard handle, a fresh untriggered token.
Init ==
    /\ pc = [s \in Sup |-> IF s = 1 THEN "idle" ELSE "absent"]
    /\ shard_handle = [s \in Sup |-> 0]
    /\ shard_cancel_token = [s \in Sup |-> IF s = 1 THEN 1 ELSE 0]
    /\ cancelled = [k \in Token |-> FALSE]
    /\ task = [t \in Task |-> "unspawned"]
    /\ task_token = [t \in Task |-> 0]
    /\ serenity_bot = [writer |-> 0, readers |-> {}]
    /\ audio_player = 0
    /\ handle_mutex = [t \in Task |-> 0]
    /\ player_called = [s \in Sup |-> FALSE]
    /\ player_result = "none"
    /\ player_shutdowns = 0
    /\ cancel_called = [s \in Sup |-> FALSE]
    /\ transitions = 0
    /\ outcome = [t \in Task |-> "none"]
    /\ log = [s \in Sup |-> {}]
    /\ call = [c \in Call |-> NoCall]
    /\ shard_manager = 0
    /\ runners = 0
    /\ handler = [m \in Msg |-> NoMsg]


----------------------------------------------------------------------------
(* Clone for DiscordBot and start_shards                                   *)

NextSup == CHOOSE c \in Sup : pc[c] = "absent" /\ \A d \in Sup : d < c => pc[d] # "absent"
NextTask == CHOOSE t \in Task : task[t] = "unspawned" /\ \A u \in Task : u < t => task[u] # "unspawned"

\* A clone that builds its own token, as new() does, instead of sharing.
clone_fresh_token(s) ==
    /\ pc[s] = "idle"
    /\ \E c \in Sup : pc[c] = "absent"
    /\ pc' = [pc EXCEPT ![NextSup] = "idle"]
    /\ shard_handle' = [shard_handle EXCEPT ![NextSup] = shard_handle[s]]
    /\ shard_cancel_token' = [shard_cancel_token EXCEPT ![NextSup] = NextSup]
    /\ UNCHANGED <<taskVars, audioVars, tokenVars, handle_mutex, log>>
    /\ UNCHANGED apiVars

\* clone(&self): every shared field is the same Arc, the handle Mutex and
\* the token included; the value is borrowed, so it is not in shutdown.
clone(s) ==
    /\ pc[s] = "idle"
    /\ \E c \in Sup : pc[c] = "absent"
    /\ pc' = [pc EXCEPT ![NextSup] = "idle"]
    /\ shard_handle' = [shard_handle EXCEPT ![NextSup] = shard_handle[s]]
    /\ shard_cancel_token' = [shard_cancel_token EXCEPT ![NextSup] = shard_cancel_token[s]]
    /\ UNCHANGED <<taskVars, audioVars, tokenVars, handle_mutex, log>>
    /\ UNCHANGED apiVars

\* A start_shards that keeps a handle already stored (get_or_insert).
start_shards_keep_handle(s) ==
    /\ pc[s] = "idle"
    /\ \E t \in Task : task[t] = "unspawned"
    /\ task' = [task EXCEPT ![NextTask] = "lock_wait"]
    /\ task_token' = [task_token EXCEPT ![NextTask] = shard_cancel_token[s]]
    /\ shard_handle' = [shard_handle EXCEPT ![s] = IF @ = 0 THEN NextTask ELSE @]
    /\ UNCHANGED <<pc, shard_cancel_token, serenity_bot, outcome, audioVars,
                   tokenVars, handle_mutex, log>>
    /\ UNCHANGED apiVars

\* start_shards(&mut self): spawns the async block with clones of the client
\* Arc and of the token, and overwrites shard_handle without looking at it.
start_shards(s) ==
    /\ pc[s] = "idle"
    /\ \E t \in Task : task[t] = "unspawned"
    /\ task' = [task EXCEPT ![NextTask] = "lock_wait"]
    /\ task_token' = [task_token EXCEPT ![NextTask] = shard_cancel_token[s]]
    /\ shard_handle' = [shard_handle EXCEPT ![s] = NextTask]
    /\ UNCHANGED <<pc, shard_cancel_token, serenity_bot, outcome, audioVars,
                   tokenVars, handle_mutex, log>>
    /\ UNCHANGED apiVars

----------------------------------------------------------------------------
(* The async block spawned by start_shards                                 *)

\* The block taking the read half of the RwLock.
spawn_read(t) ==
    /\ task[t] = "lock_wait"
    /\ serenity_bot.writer = 0
    /\ serenity_bot' = [serenity_bot EXCEPT !.readers = @ \cup {t}]
    /\ task' = [task EXCEPT ![t] = "select"]
    /\ UNCHANGED <<supVars, task_token, outcome, audioVars, tokenVars,
                   handle_mutex, log>>
    /\ UNCHANGED apiVars

\* let mut lock = bot.write().await
spawn_write(t) ==
    /\ task[t] = "lock_wait"
    /\ serenity_bot.writer = 0
    /\ serenity_bot.readers = {}
    /\ serenity_bot' = [serenity_bot EXCEPT !.writer = t]
    /\ task' = [task EXCEPT ![t] = "select"]
    /\ UNCHANGED <<supVars, task_token, outcome, audioVars, tokenVars,
                   handle_mutex, log>>
    /\ UNCHANGED apiVars

\* An end of block that leaks the guard (mem::forget).
spawn_end_leak(t) ==
    /\ task' = [task EXCEPT ![t] = "done"]
    /\ serenity_bot' = serenity_bot

\* End of the async block: the write guard `lock` is dropped, the task ends.
spawn_end(t) ==
    /\ task' = [task EXCEPT ![t] = "done"]
    /\ serenity_bot' = [writer |-> IF serenity_bot.writer = t THEN 0 ELSE serenity_bot.writer,
                        readers |-> serenity_bot.readers \ {t}]

\* select! branch 1: lock.start_shards(num_shards) resolved; the branch logs
\* and the block ends.  select! polls its branches in random order, so this
\* branch can win with the token triggered.
select_start_shards(t) ==
    /\ task[t] = "select"
    /\ outcome' = [outcome EXCEPT ![t] =
                      IF cancelled[task_token[t]] THEN "natural_late" ELSE "natural"]
    /\ spawn_end(t)
    /\ UNCHANGED <<supVars, task_token, audioVars, tokenVars, handle_mutex, log>>
    /\ UNCHANGED apiVars

\* A cancel branch that goes round the drive loop again.
select_cancelled_loop(t) ==
    /\ task[t] = "select"
    /\ cancelled[task_token[t]]
    /\ UNCHANGED vars

\* select! branch 2: cloned_token.cancelled() resolved; the branch logs and
\* the block ends.
select_cancelled(t) ==
    /\ task[t] = "select"
    /\ cancelled[task_token[t]]
    /\ outcome' = [outcome EXCEPT ![t] = "cancelled"]
    /\ spawn_end(t)
    /\ UNCHANGED <<supVars, task_token, audioVars, tokenVars, handle_mutex, log>>
    /\ UNCHANGED apiVars

----------------------------------------------------------------------------
(* shutdown, stop_audio and stop_shards                                    *)

\* shutdown(self) is called: the value is moved, nothing else can use it,
\* and stop_audio starts by waiting for the audio Mutex.
shutdown(s) ==
    /\ pc[s] = "idle"
    /\ pc' = [pc EXCEPT ![s] = "audio_lock"]
    /\ UNCHANGED <<shard_handle, shard_cancel_token, taskVars, audioVars,
                   tokenVars, handle_mutex, log>>
    /\ UNCHANGED apiVars

\* A player.shutdown()? that leaves stop_audio and shutdown on Err.
stop_audio_try(s, r) ==
    /\ pc[s] = "audio_lock"
    /\ audio_player = 0
    /\ player_called' = [player_called EXCEPT ![s] = TRUE]
    /\ player_result' = r
    /\ player_shutdowns' = player_shutdowns + 1
    /\ pc' = [pc EXCEPT ![s] = IF r = "Err" THEN "returned" ELSE "sleep"]
    /\ audio_player' = IF r = "Err" THEN 0 ELSE s
    /\ UNCHANGED <<shard_handle, shard_cancel_token, taskVars, tokenVars,
                   handle_mutex, log>>
    /\ UNCHANGED apiVars

\* A stop_audio without the call of player.shutdown().
stop_audio_no_player(s, r) ==
    /\ pc[s] = "audio_lock"
    /\ audio_player = 0
    /\ audio_player' = s
    /\ pc' = [pc EXCEPT ![s] = "sleep"]
    /\ UNCHANGED <<shard_handle, shard_cancel_token, taskVars, tokenVars,
                   player_called, player_result, player_shutdowns, handle_mutex,
                   log>>
    /\ UNCHANGED apiVars

\* stop_audio up to its sleep: the audio Mutex is acquired once free, then
\* player.shutdown() (not async) returns r, an Err is only logged, and the
\* sleep starts.  The guard `player` lives to the end of stop_audio, so
\* player_result is this call's result for the whole sleep.
stop_audio(s, r) ==
    /\ pc[s] = "audio_lock"
    /\ audio_player = 0
    /\ audio_player' = s
    /\ player_called' = [player_called EXCEPT ![s] = TRUE]
    /\ player_result' = r
    /\ player_shutdowns' = player_shutdowns + 1
    /\ pc' = [pc EXCEPT ![s] = "sleep"]
    /\ UNCHANGED <<shard_handle, shard_cancel_token, taskVars, tokenVars,
                   handle_mutex, log>>
    /\ UNCHANGED apiVars

\* CancellationToken::cancel on token state k: sets it; a second call is a
\* no-op.  transitions counts the changes from untriggered to triggered.
cancel(k) ==
    /\ cancelled' = [cancelled EXCEPT ![k] = TRUE]
    /\ transitions' = IF cancelled[k] THEN transitions ELSE transitions + 1

\* A match that unwraps the handle and panics on None.
match_shard_handle_unwrap(s) ==
    /\ pc' = [pc EXCEPT ![s] = IF shard_handle[s] = 0 THEN "panicked" ELSE "handle_lock"]
    /\ log' = log

\* match &self.shard_handle: None logs the error, stop_shards and shutdown
\* return; Some(x) goes on to x.lock().
match_shard_handle(s) ==
    IF shard_handle[s] = 0
      THEN /\ log' = [log EXCEPT ![s] = @ \cup {"no_handle"}]
           /\ pc' = [pc EXCEPT ![s] = "returned"]
      ELSE /\ log' = log
           /\ pc' = [pc EXCEPT ![s] = "handle_lock"]

\* A stop_shards entered with the guard `player` still alive.
stop_shards_keep_audio(s) ==
    /\ pc[s] = "sleep"
    /\ audio_player' = audio_player
    /\ cancel(shard_cancel_token[s])
    /\ cancel_called' = [cancel_called EXCEPT ![s] = TRUE]
    /\ match_shard_handle(s)
    /\ UNCHANGED <<shard_handle, shard_cancel_token, taskVars, player_called,
                   player_result, player_shutdowns, handle_mutex>>
    /\ UNCHANGED apiVars

\* A stop_shards that looks at the handle first and cancels only in Some.
stop_shards_handle_first(s) ==
    /\ pc[s] = "sleep"
    /\ audio_player' = IF audio_player = s THEN 0 ELSE audio_player
    /\ IF shard_handle[s] = 0
         THEN UNCHANGED <<cancelled, transitions, cancel_called>>
         ELSE /\ cancel(shard_cancel_token[s])
              /\ cancel_called' = [cancel_called EXCEPT ![s] = TRUE]
    /\ match_shard_handle(s)
    /\ UNCHANGED <<shard_handle, shard_cancel_token, taskVars, player_called,
                   player_result, player_shutdowns, handle_mutex>>
    /\ UNCHANGED apiVars

\* The sleep of 500 ms is over and stop_audio returns, dropping `player`;
\* shutdown goes on to stop_shards, which runs to its await without a
\* suspension: cancel() on the token, then the match on shard_handle.
stop_shards(s) ==
    /\ pc[s] = "sleep"
    /\ audio_player' = IF audio_player = s THEN 0 ELSE audio_player
    /\ cancel(shard_cancel_token[s])
    /\ cancel_called' = [cancel_called EXCEPT ![s] = TRUE]
    /\ match_shard_handle(s)
    /\ UNCHANGED <<shard_handle, shard_cancel_token, taskVars, player_called,
                   player_result, player_shutdowns, handle_mutex>>
    /\ UNCHANGED apiVars

\* A guard that is kept and never dropped.
stop_shards_waited_keep(s) ==
    /\ pc[s] = "handle_lock"
    /\ handle_mutex[shard_handle[s]] = 0
    /\ handle_mutex' = [handle_mutex EXCEPT ![shard_handle[s]] = s]
    /\ log' = [log EXCEPT ![s] = @ \cup {"waited"}]
    /\ pc' = [pc EXCEPT ![s] = "returned"]
    /\ UNCHANGED <<shard_handle, shard_cancel_token, taskVars, audioVars,
                   tokenVars>>
    /\ UNCHANGED apiVars

\* handle_lock.await: the MutexFut resolves to the guard of the Mutex around
\* the JoinHandle once that Mutex is free.  The JoinHandle inside is never
\* polled, so the state of the task it names is no part of the guard.  The
\* guard is a temporary of the statement and is dropped at once; then
\* warn!("Successfully waited on future") and stop_shards returns.
stop_shards_waited(s) ==
    /\ pc[s] = "handle_lock"
    /\ handle_mutex[shard_handle[s]] = 0
    /\ handle_mutex' = handle_mutex
    /\ log' = [log EXCEPT ![s] = @ \cup {"waited"}]
    /\ pc' = [pc EXCEPT ![s] = "returned"]
    /\ UNCHANGED <<shard_handle, shard_cancel_token, taskVars, audioVars,
                   tokenVars>>
    /\ UNCHANGED apiVars

----------------------------------------------------------------------------
Next ==
    \/ \E s \in Sup : clone(s)
    \/ \E s \in Sup : start_shards(s)
    \/ \E t \in Task : spawn_write(t)
    \/ \E t \in Task : select_start_shards(t)
    \/ \E t \in Task : select_cancelled(t)
    \/ \E s \in Sup : shutdown(s)
    \/ \E s \in Sup, r \in {"Ok", "Err"} : stop_audio(s, r)
    \/ \E s \in Sup : stop_shards(s)
    \/ \E s \in Sup : stop_shards_waited(s)

Spec == Init /\ [][Next]_vars

\* A step of the tokio runtime: a spawned block or a shutdown in progress is
\* polled and moves on.  The drive loop (select_start_shards) and the callers
\* of clone, start_shards and shutdown owe no progress.
Poll ==
    \/ \E t \in Task : spawn_write(t)
    \/ \E t \in Task : select_cancelled(t)
    \/ \E s \in Sup, r \in {"Ok", "Err"} : stop_audio(s, r)
    \/ \E s \in Sup : stop_shards(s)
    \/ \E s \in Sup : stop_shards_waited(s)

\* The runtime does not stop while some task can be polled.  No step is ever
\* undone, so this is as strong here as fairness for each task on its own.
Fairness == WF_vars(Poll)

FairSpec == Spec /\ Fairness

----------------------------------------------------------------------------
(* post_message, post_debug_string and print_shard_info                    *)
(* A call is made through a value that is not in shutdown (a clone, whose  *)
(* bot_http, channel ids and shard_manager are those of every value), so   *)
(* it interleaves with every step of the lifecycle.                        *)

NextCall == CHOOSE c \in Call : call[c].op = "none" /\ \A d \in Call : d < c => call[d].op # "none"

\* An archive text with the url appended bare.
archive_text_bare(content, url) ==
    IF url = None THEN content ELSE content \o <<"\n">> \o url

\* match message.url: Some(m) pushes format!("\n<{}>", m), None nothing.
archive_text(content, url) ==
    IF url = None THEN content ELSE content \o <<"\n<">> \o url \o <<">">>

\* post_message(&self, message) up to its first await: the text is
\* message.discord_string() and chat_channel.say(..) is requested.
post_message(content, url) ==
    /\ \E c \in Call : call[c].op = "none"
    /\ call' = [call EXCEPT ![NextCall] =
                  [op |-> "post", at |-> "primary", content |-> content,
                   url |-> url, sends |-> <<>>]]
    /\ UNCHANGED <<lifeVars, shard_manager, runners, handler>>

\* A first send that needs the client: it waits for serenity_bot.
post_primary_via_client(c, r) ==
    /\ call[c].at = "primary"
    /\ serenity_bot.writer = 0
    /\ call' = [call EXCEPT
                  ![c].sends = Append(@, <<chat_channel, call[c].content, r>>),
                  ![c].at = IF r = "Ok" THEN "archive" ELSE "panicked"]
    /\ UNCHANGED <<lifeVars, shard_manager, runners, handler>>

\* A first send whose error is logged and passed over.
post_primary_no_expect(c, r) ==
    /\ call[c].at = "primary"
    /\ call' = [call EXCEPT
                  ![c].sends = Append(@, <<chat_channel, call[c].content, r>>),
                  ![c].at = "archive"]
    /\ UNCHANGED <<lifeVars, shard_manager, runners, handler>>

\* self.chat_channel.say(&http, message_text.clone()).await.expect(..): the
\* send returns r; Err panics, Ok goes on to the archive send.
post_primary(c, r) ==
    /\ call[c].at = "primary"
    /\ call' = [call EXCEPT
                  ![c].sends = Append(@, <<chat_channel, call[c].content, r>>),
                  ![c].at = IF r = "Ok" THEN "archive" ELSE "panicked"]
    /\ UNCHANGED <<lifeVars, shard_manager, runners, handler>>

\* self.archive_channel.say(&http, message_text).await.expect(..), with the
\* url appended to the text; Err panics, Ok returns.
post_archive(c, r) ==
    /\ call[c].at = "archive"
    /\ call' = [call EXCEPT
                  ![c].sends = Append(@, <<archive_channel,
                                           archive_text(call[c].content, call[c].url), r>>),
                  ![c].at = IF r = "Ok" THEN "done" ELSE "panicked"]
    /\ UNCHANGED <<lifeVars, shard_manager, runners, handler>>

\* post_debug_string(&self, message) up to its await.
post_debug_string(content) ==
    /\ \E c \in Call : call[c].op = "none"
    /\ call' = [call EXCEPT ![NextCall] =
                  [op |-> "debug", at |-> "debug", content |-> content,
                   url |-> None, sends |-> <<>>]]
    /\ UNCHANGED <<lifeVars, shard_manager, runners, handler>>

\* self.test_channel.say(&http, message.clone()).await.expect(..)
post_debug(c, r) ==
    /\ call[c].at = "debug"
    /\ call' = [call EXCEPT
                  ![c].sends = Append(@, <<test_channel, call[c].content, r>>),
                  ![c].at = IF r = "Ok" THEN "done" ELSE "panicked"]
    /\ UNCHANGED <<lifeVars, shard_manager, runners, handler>>

\* print_shard_info(&self) up to its first await, on shard_manager.lock().
print_shard_info ==
    /\ \E c \in Call : call[c].op = "none"
    /\ call' = [call EXCEPT ![NextCall] =
                  [op |-> "info", at |-> "manager", content |-> <<>>,
                   url |-> None, sends |-> <<>>]]
    /\ UNCHANGED <<lifeVars, shard_manager, runners, handler>>

\* A first acquisition that takes the runner table instead of the manager.
info_runners_first(c) ==
    /\ call[c].at = "manager"
    /\ runners = 0
    /\ runners' = c
    /\ call' = [call EXCEPT ![c].at = "runners"]
    /\ UNCHANGED <<lifeVars, shard_manager, handler>>

\* let lock = self.shard_manager.lock().await
info_manager(c) ==
    /\ call[c].at = "manager"
    /\ shard_manager = 0
    /\ shard_manager' = c
    /\ call' = [call EXCEPT ![c].at = "runners"]
    /\ UNCHANGED <<lifeVars, runners, handler>>

\* let shard_runners = lock.runners.lock().await, with `lock` held.
info_runners(c) ==
    /\ call[c].at = "runners"
    /\ runners = 0
    /\ runners' = c
    /\ call' = [call EXCEPT ![c].at = "report"]
    /\ UNCHANGED <<lifeVars, shard_manager, handler>>

\* The loop logs each runner; at the return both guards are dropped.
info_report(c) ==
    /\ call[c].at = "report"
    /\ runners' = IF runners = c THEN 0 ELSE runners
    /\ shard_manager' = IF shard_manager = c THEN 0 ELSE shard_manager
    /\ call' = [call EXCEPT ![c].at = "done"]
    /\ UNCHANGED <<lifeVars, handler>>

\* The calls that send texts, over every text and url.
NextPost ==
    \/ \E content \in Content, url \in Url : post_message(content, url)
    \/ \E c \in Call, r \in {"Ok", "Err"} : post_primary(c, r)
    \/ \E c \in Call, r \in {"Ok", "Err"} : post_archive(c, r)
    \/ \E content \in Content : post_debug_string(content)
    \/ \E c \in Call, r \in {"Ok", "Err"} : post_debug(c, r)

PostSpec == Init /\ [][NextPost]_vars

\* The value built by new(), its shard run tasks and its shutdown, with the
\* calls made on the side.  No lock depends on a text, so one text is sent.
NextApi ==
    \/ \E s \in Sup : start_shards(s)
    \/ \E t \in Task : spawn_write(t)
    \/ \E t \in Task : select_start_shards(t)
    \/ \E t \in Task : select_cancelled(t)
    \/ \E s \in Sup : shutdown(s)
    \/ \E s \in Sup, r \in {"Ok", "Err"} : stop_audio(s, r)
    \/ \E s \in Sup : stop_shards(s)
    \/ \E s \in Sup : stop_shards_waited(s)
    \/ post_message(<<"hello">>, None)
    \/ \E c \in Call, r \in {"Ok", "Err"} : post_primary(c, r)
    \/ \E c \in Call, r \in {"Ok", "Err"} : post_archive(c, r)
    \/ post_debug_string(<<"hello">>)
    \/ \E c \in Call, r \in {"Ok", "Err"} : post_debug(c, r)
    \/ print_shard_info
    \/ \E c \in Call : info_manager(c)
    \/ \E c \in Call : info_runners(c)
    \/ \E c \in Call : info_report(c)

ApiSpec == Init /\ [][NextApi]_vars

----------------------------------------------------------------------------
(* BotEventHandler::message                                                *)

\* message.react(.., :guthchamp:).await.expect(..) returned r.
react_success(h, r) ==
    [h EXCEPT !.reacts = Append(@, <<":guthchamp:", r>>),
              !.at = IF r = "Ok" THEN "done" ELSE "panicked"]

\* message.react(.., :final_pepe:).await.expect(..) returned r.
react_fail(h, r) ==
    [h EXCEPT !.reacts = Append(@, <<":final_pepe:", r>>),
              !.at = IF r = "Ok" THEN "done" ELSE "panicked"]

\* A filter with || in the place of &&.
message_or(m, channel_id, bot) ==
    /\ handler[m].at = "none"
    /\ handler' = [handler EXCEPT ![m] =
                     [@ EXCEPT !.channel = channel_id, !.bot = bot,
                               !.parsed = (channel_id = listen_channel) \/ ~ bot,
                               !.at = IF (channel_id = listen_channel) \/ ~ bot
                                        THEN "process" ELSE "done"]]
    /\ UNCHANGED <<lifeVars, call, shard_manager, runners>>

\* message(&self, ctx, new_message) up to its first await: a message of the
\* listen channel whose author is no bot is given to parser.process, any
\* other message ends the handler.
message(m, channel_id, bot) ==
    /\ handler[m].at = "none"
    /\ handler' = [handler EXCEPT ![m] =
                     [@ EXCEPT !.channel = channel_id, !.bot = bot,
                               !.parsed = (channel_id = listen_channel) /\ ~ bot,
                               !.at = IF (channel_id = listen_channel) /\ ~ bot
                                        THEN "process" ELSE "done"]]
    /\ UNCHANGED <<lifeVars, call, shard_manager, runners>>

\* parser.process(..).await returned r: Ok asks for the reaction of success,
\* Err logs the error and asks for the reaction of failure.
message_process(m, r) ==
    /\ handler[m].at = "process"
    /\ handler' = [handler EXCEPT ![m] =
                     [@ EXCEPT !.result = r, !.error_logged = (r = "Err"),
                               !.at = "react"]]
    /\ UNCHANGED <<lifeVars, call, shard_manager, runners>>

\* The reaction request returned r; Err panics in expect.
message_react(m, r) ==
    /\ handler[m].at = "react"
    /\ handler' = [handler EXCEPT ![m] =
                     IF handler[m].result = "Ok" THEN react_success(@, r)
                                                 ELSE react_fail(@, r)]
    /\ UNCHANGED <<lifeVars, call, shard_manager, runners>>

NextHandler ==
    \/ \E m \in Msg, channel_id \in ChannelId, bot \in BOOLEAN : message(m, channel_id, bot)
    \/ \E m \in Msg, r \in {"Ok", "Err"} : message_process(m, r)
    \/ \E m \in Msg, r \in {"Ok", "Err"} : message_react(m, r)

HandlerSpec == Init /\ [][NextHandler]_vars

----------------------------------------------------------------------------
(* Properties                                                              *)

InShutdown(s) == pc[s] \notin {"absent", "idle"}
InRace(t) == task[t] = "select"
PastCancel(s) == pc[s] \in {"handle_lock", "returned"}

\* C1: whenever a value's shutdown has called cancel() on the token,
\* player.shutdown() has already returned to that same shutdown call.
C1_AudioShutdownBeforeCancel ==
    \A s \in Sup : cancel_called[s] => player_called[s]

C1_Witness ==
    \E s \in Sup : cancel_called[s] /\ player_called[s] /\ pc[s] = "handle_lock"

\* C2: once shutdown() has returned on a value with a stored handle, the task
\* of that handle has ended and no longer holds the client write lock.
C2_ShutdownJoinsTask ==
    \A s \in Sup :
        (pc[s] = "returned" /\ shard_handle[s] # 0) =>
            /\ task[shard_handle[s]] = "done"
            /\ serenity_bot.writer # shard_handle[s]

\* C3: at most one task is in the drive/cancel race, a task in the race is
\* the writer of the client lock, and a task enters the race only when every
\* other task is not yet in it or has ended.
C3_DriveMutualExclusion ==
    /\ [](/\ Cardinality({t \in Task : InRace(t)}) <= 1
          /\ \A t \in Task : InRace(t) => serenity_bot.writer = t)
    /\ [][\A t \in Task :
            (task[t] = "lock_wait" /\ task'[t] = "select") =>
                \A u \in Task \ {t} : task[u] \in {"unspawned", "lock_wait", "done"}]_vars

C3_Witness ==
    \E t, u \in Task : InRace(t) /\ task[u] = "lock_wait" /\ serenity_bot.writer = t

\* C4: the token starts untriggered, all the cancel() calls of all the values
\* make one transition to triggered in total, and no step untriggers a token.
C4_TokenMonotonic ==
    /\ \A k \in Token : ~ cancelled[k]
    /\ [](transitions <= 1)
    /\ [][\A k \in Token : cancelled[k] => cancelled'[k]]_vars

C4_Witness ==
    /\ \A s \in Sup : cancel_called[s]
    /\ transitions = 1
    /\ \E k \in Token : cancelled[k]

\* C5: a spawned task whose token is triggered eventually ends, wherever it
\* was when the token was triggered.
C5_CancelledTaskTerminates ==
    \A t \in Task :
        (task[t] # "unspawned" /\ cancelled[task_token[t]]) ~> (task[t] = "done")

C5_Witness ==
    \E t, u \in Task :
        /\ task[t] = "done" /\ outcome[t] = "cancelled"
        /\ task[u] = "done" /\ outcome[u] = "cancelled"
        /\ t # u

\* C6: a task whose drive loop finished before the token was triggered has
\* ended and holds no lock, and a shutdown of a value that stores its handle
\* returns.
C6_NaturalStopThenShutdown ==
    /\ [](\A t \in Task :
            outcome[t] = "natural" => (task[t] = "done" /\ serenity_bot.writer # t))
    /\ \A s \in Sup :
         (InShutdown(s) /\ shard_handle[s] # 0 /\ outcome[shard_handle[s]] = "natural")
             ~> (pc[s] = "returned")

C6_Witness ==
    \E s \in Sup :
        /\ pc[s] = "returned" /\ "waited" \in log[s]
        /\ shard_handle[s] # 0
        /\ outcome[shard_handle[s]] = "natural"
        /\ task[shard_handle[s]] = "done"

\* C7: whichever branch of the race a task took, once it has ended it holds
\* no part of the client lock.
C7_EndedTaskHoldsNoLock ==
    \A t \in Task :
        task[t] = "done" =>
            /\ outcome[t] # "none"
            /\ serenity_bot.writer # t
            /\ t \notin serenity_bot.readers

C7_Witness ==
    \E t, u \in Task :
        /\ task[t] = "done" /\ outcome[t] = "natural"
        /\ task[u] = "done" /\ outcome[u] = "cancelled"
        /\ serenity_bot.writer = 0

\* C8: whatever player.shutdown() returns, Err included, the shutdown is next
\* in the grace delay, and from there it goes on to call cancel() and to look
\* at the shard handle.
C8_PlayerErrorDoesNotStopShutdown ==
    /\ [][\A s \in Sup : (~ player_called[s] /\ player_called'[s]) => pc'[s] = "sleep"]_vars
    /\ \A s \in Sup :
         (pc[s] = "sleep" /\ player_result \in {"Ok", "Err"})
             ~> (cancel_called[s] /\ PastCancel(s))

\* The only call of player.shutdown() so far returned Err, and the shutdown
\* that made it has called cancel() and waits on the shard handle.
C8_Witness ==
    \E s \in Sup :
        /\ player_result = "Err" /\ player_shutdowns = 1 /\ player_called[s]
        /\ cancel_called[s] /\ pc[s] = "handle_lock"

\* C9: no shutdown is suspended in the grace delay while it holds the audio
\* player lock.
C9_GraceDelayAfterAudioRelease ==
    \A s \in Sup : pc[s] = "sleep" => audio_player # s

\* C10: a shutdown of a value without a stored handle never panics, logs the
\* missing handle (and no successful wait) and returns.
C10_NoHandleShutdownReturns ==
    /\ [](\A s \in Sup :
            /\ pc[s] # "panicked"
            /\ (pc[s] = "returned" /\ shard_handle[s] = 0) =>
                   ("no_handle" \in log[s] /\ "waited" \notin log[s]))
    /\ \A s \in Sup : (InShutdown(s) /\ shard_handle[s] = 0) ~> (pc[s] = "returned")

C10_Witness ==
    \E s \in Sup :
        pc[s] = "returned" /\ shard_handle[s] = 0 /\ "no_handle" \in log[s]

----------------------------------------------------------------------------
(* Properties of repeated start_shards, clones and lock order              *)

Active(t) == task[t] \in {"lock_wait", "select"}

\* C13: at most one shard run task is spawned and not yet ended.
C13_AtMostOneActiveTask ==
    Cardinality({t \in Task : Active(t)}) <= 1

\* C14: a start_shards on a value that stores a handle is not held up by the
\* earlier task; it stores the handle of the new task in place of the old
\* one (the task spawned last is always stored by some value) and leaves the
\* earlier task, the token, the handle Mutex and the client lock as they are.
C14_StartShardsOverwritesHandle ==
    [][\A s \in Sup :
         (shard_handle[s] # 0 /\ shard_handle'[s] # shard_handle[s] /\ pc'[s] = "idle"
          /\ pc[s] = "idle") =>
             /\ task[shard_handle'[s]] = "unspawned"
             /\ task'[shard_handle'[s]] = "lock_wait"
             /\ task'[shard_handle[s]] = task[shard_handle[s]]
             /\ cancelled' = cancelled
             /\ handle_mutex' = handle_mutex
             /\ serenity_bot' = serenity_bot]_vars
    /\ [](\A s \in Sup, t \in Task :
            (pc[s] = "idle" /\ shard_handle[s] # 0 /\ task[t] = "unspawned")
                => ENABLED start_shards(s))
    /\ [](\A t \in Task :
            (task[t] # "unspawned" /\ \A u \in Task : u > t => task[u] = "unspawned")
                => \E s \in Sup : shard_handle[s] = t)

\* The only value has started shards twice: it stores the second task, and
\* the first is still in its race.
C14_Witness ==
    /\ \A s \in Sup \ {1} : pc[s] = "absent"
    /\ pc[1] = "idle" /\ shard_handle[1] = 2
    /\ task[1] = "select" /\ task[2] = "lock_wait"

\* C15: player.shutdown() is called at most once and at most one value ever
\* runs the shutdown sequence.
C15_ShutdownAtMostOnce ==
    /\ player_shutdowns <= 1
    /\ Cardinality({s \in Sup : InShutdown(s)}) <= 1

\* C16: a shutdown holds the audio player lock only in stop_audio, before it
\* has called cancel() and before it waits on the shard handle; the client
\* lock is held by spawned blocks only, never by a shutdown.
C16_AudioLockReleasedBeforeShardStop ==
    /\ \A s \in Sup : audio_player = s => (pc[s] = "sleep" /\ ~ cancel_called[s])
    /\ \A s \in Sup : (cancel_called[s] \/ PastCancel(s)) => audio_player # s
    /\ serenity_bot.writer # 0 => task[serenity_bot.writer] = "select"

C16_Witness ==
    \E s \in Sup :
        /\ pc[s] = "handle_lock" /\ cancel_called[s] /\ audio_player # s
        /\ serenity_bot.writer = shard_handle[s]

\* C19: every value and every task refer to the one token, and a shutdown
\* that is past stop_shards' first statement has triggered it, with or without
\* a stored handle; without one it has logged the missing handle.
C19_CancelBeforeHandleMatch ==
    /\ \A s \in Sup, t \in Task :
         (pc[s] # "absent" /\ task[t] # "unspawned") => task_token[t] = shard_cancel_token[s]
    /\ \A s \in Sup :
         PastCancel(s) =>
             /\ cancel_called[s]
             /\ cancelled[shard_cancel_token[s]]
             /\ shard_handle[s] = 0 => "no_handle" \in log[s]

\* A value without a handle has shut down and logged it; the task stored by
\* another value, which has not called cancel(), ended in its cancel branch.
C19_Witness ==
    \E s, o \in Sup :
        /\ s # o
        /\ shard_handle[s] = 0 /\ "no_handle" \in log[s] /\ pc[s] = "returned"
        /\ shard_handle[o] # 0 /\ ~ cancel_called[o]
        /\ task[shard_handle[o]] = "done" /\ outcome[shard_handle[o]] = "cancelled"

----------------------------------------------------------------------------
(* Properties of the calls and of the event handler                        *)

PostDone(c) == call[c].op = "post" /\ call[c].at = "done"
PostEnded(c) == call[c].op = "post" /\ call[c].at \in {"done", "panicked"}

\* C11: a post that returned made two sends, both delivered: the content to
\* the chat channel, then to the archive channel the content, followed when
\* there is a url by a newline and the url between angle brackets; none went
\* to the test channel.
C11_PostSendsPrimaryThenArchive ==
    \A c \in Call :
        PostDone(c) =>
            LET n == Len(call[c].content)
                first == call[c].sends[1]
                second == call[c].sends[2]
            IN  /\ Len(call[c].sends) = 2
                /\ first = <<chat_channel, call[c].content, "Ok">>
                /\ second[1] = archive_channel /\ second[3] = "Ok"
                /\ SubSeq(second[2], 1, n) = call[c].content
                /\ call[c].url = None => Len(second[2]) = n
                /\ call[c].url # None =>
                       /\ Len(second[2]) = n + 3
                       /\ second[2][n + 1] = "\n<"
                       /\ second[2][n + 2] = call[c].url[1]
                       /\ second[2][n + 3] = ">"
                /\ \A i \in 1..2 : call[c].sends[i][1] # test_channel

C11_Witness ==
    \E c \in Call :
        /\ PostDone(c) /\ call[c].url # None /\ Len(call[c].content) = 2
        /\ Len(call[c].sends) = 2

\* C12 as claimed: the archive send is made whatever the primary send
\* returned, so a post that has ended has made both sends.
C12_ArchiveAttemptedWhateverPrimary ==
    \A c \in Call : PostEnded(c) => Len(call[c].sends) = 2

\* C12 amended: the archive send is made exactly when the primary send
\* succeeded, and it then succeeds or fails on its own; a failed primary send
\* panics the post with the archive send never made.
C12_ArchiveOnlyAfterPrimaryOk ==
    \A c \in Call :
        call[c].op = "post" =>
            /\ Len(call[c].sends) = 2 => call[c].sends[1][3] = "Ok"
            /\ (Len(call[c].sends) >= 1 /\ call[c].sends[1][3] = "Err") =>
                   (call[c].at = "panicked" /\ Len(call[c].sends) = 1)
            /\ call[c].at = "done" =>
                   (Len(call[c].sends) = 2 /\ call[c].sends[2][3] = "Ok")
            /\ (call[c].at = "archive") =>
                   (Len(call[c].sends) = 1 /\ call[c].sends[1][3] = "Ok")

\* The primary send was delivered and the archive send failed.
C12_Witness ==
    \E c \in Call :
        /\ call[c].op = "post" /\ call[c].at = "panicked"
        /\ Len(call[c].sends) = 2
        /\ call[c].sends[1][3] = "Ok" /\ call[c].sends[2][3] = "Err"

C18_ManagerThenRunners ==
    /\ [](\A c \in Call :
            /\ runners = c => (shard_manager = c /\ call[c].at = "report")
            /\ shard_manager = c => call[c].at \in {"runners", "report"}
            /\ call[c].at = "report" => (shard_manager = c /\ runners = c)
            /\ call[c].at \in {"none", "manager", "done"} =>
                   (shard_manager # c /\ runners # c))
    /\ [][(shard_manager' # shard_manager \/ runners' # runners) =>
            (/\ UNCHANGED lifeVars
             /\ UNCHANGED handler
             /\ \A c \in Call : call[c].op # "info" => call'[c] = call[c])]_vars

\* One introspection holds both locks, another waits for the manager.
C18_Witness ==
    \E c, d \in Call :
        /\ call[c].at = "report" /\ shard_manager = c /\ runners = c
        /\ call[d].at = "manager"

Processed(m) == handler[m].channel = listen_channel /\ ~ handler[m].bot
Ended(m) == handler[m].at \in {"done", "panicked"}
Added(m) == {i \in 1..Len(handler[m].reacts) : handler[m].reacts[i][2] = "Ok"}

\* C20 as claimed: the parser runs exactly for the messages of the listen
\* channel from no bot; such a message ends with exactly one reaction added,
\* and any other with none.
C20_ExactlyOneReactionAdded ==
    \A m \in Msg :
        Ended(m) =>
            /\ handler[m].parsed = Processed(m)
            /\ Processed(m) => Cardinality(Added(m)) = 1
            /\ ~ Processed(m) => handler[m].reacts = <<>>

\* C20 amended: the parser runs exactly for the messages of the listen channel
\* from no bot; for such a message the handler asks for exactly one reaction,
\* the positive one after Ok and the negative one after a logged Err, and the
\* reaction is added unless the request fails, which panics; any other message
\* has no parser run, no log and no reaction.
C20_OneReactionRequested ==
    \A m \in Msg :
        Ended(m) =>
            /\ handler[m].parsed = Processed(m)
            /\ Processed(m) =>
                   /\ Len(handler[m].reacts) = 1
                   /\ handler[m].result \in {"Ok", "Err"}
                   /\ handler[m].reacts[1][1] =
                          (IF handler[m].result = "Ok" THEN ":guthchamp:" ELSE ":final_pepe:")
                   /\ handler[m].error_logged = (handler[m].result = "Err")
                   /\ (handler[m].at = "done") = (handler[m].reacts[1][2] = "Ok")
            /\ ~ Processed(m) =>
                   /\ handler[m].reacts = <<>>
                   /\ handler[m].result = "none"
                   /\ ~ handler[m].error_logged
                   /\ handler[m].at = "done"

\* One message got the negative reaction after a logged error, another from
\* a bot in the listen channel was left alone.
C20_Witness ==
    \E m, n \in Msg :
        /\ handler[m].at = "done" /\ Processed(m) /\ handler[m].result = "Err"
        /\ handler[m].reacts = << <<":final_pepe:", "Ok">> >>
        /\ handler[n].at = "done" /\ handler[n].channel = listen_channel /\ handler[n].bot
        /\ handler[n].reacts = <<>>

====
